---- MODULE Spec2Model ----
(***************************************************************************)
(* Model of the content/metadata cache layer of src/layers/cache.rs:       *)
(* ContentCacheAccessor (create, read, write, stat, delete), the two read  *)
(* strategies (Whole, Fixed(step)), FixedCacheRangeIterator and            *)
(* FixedCacheReader::poll_read.  The origin store (`inner`) and the cache  *)
(* store (`cache`) are Accessors: maps from path strings to byte strings.  *)
(***************************************************************************)
EXTENDS Integers, Sequences, FiniteSets, TLC

VARIABLES strategy, origin, cache, tasks, faults, hist, it, emitted

storeVars == <<strategy, origin, cache, tasks, faults, hist>>
iterVars == <<it, emitted>>
vars == <<strategy, origin, cache, tasks, faults, hist, it, emitted>>

(***************************************************************************)
(* Bounds of the model.                                                    *)
(***************************************************************************)
\* largest offset / size of a fully specified range a caller passes to read
MaxOffset == 2
MaxSize == 3
\* largest caller buffer handed to poll_read
MaxBuf == 2
\* number of non-ObjectNotFound failures the cache store may produce
MaxFaults == 1
\* number of operations the callers start
MaxOps == 3
\* bytes one step of the copy of an origin chunk transfers
CopyPiece == 1
\* poll_read calls on a reader after its end of stream or error
MaxRepolls == 1
\* partitioner-only specification: ranges of offset, size and step
IterMaxOffset == 9
IterMaxSize == 8
IterMaxStep == 4

Min(a, b) == IF a < b THEN a ELSE b

(***************************************************************************)
(* Option<T>: None is the empty tuple, Some(x) the one-element tuple.      *)
(***************************************************************************)
None == <<>>
Some(x) == <<x>>
IsSome(o) == Len(o) = 1
Unwrap(o) == o[1]

(***************************************************************************)
(* BytesRange(Option<offset>, Option<size>); `(a..b).into()` is            *)
(* BytesRange(Some(a), Some(b - a)).                                       *)
(***************************************************************************)
BytesRange(o, s) == [offset |-> o, size |-> s]
RangeFrom(a, b) == BytesRange(Some(a), Some(b - a))

(***************************************************************************)
(* FixedCacheRangeIterator                                                 *)
(***************************************************************************)
FixedCacheRangeIterator_new(offset, size, step) ==
    [offset |-> offset, size |-> size, step |-> step, cur |-> offset]

cache_index(i) == i.cur \div i.step

\* Always up to the end of the chunk: the request's end is ignored.
cache_range_to_chunk_end(i) ==
    RangeFrom(i.cur % i.step, i.step)

cache_range(i) ==
    LET skipped_rem == i.cur % i.step
        to_read == i.size + i.offset - i.cur
    IN  IF to_read >= (i.step - skipped_rem)
        THEN RangeFrom(skipped_rem, i.step)
        ELSE RangeFrom(skipped_rem, skipped_rem + to_read)

total_range(i) ==
    LET idx == i.cur \div i.step
    IN  RangeFrom(i.step * idx, i.step * (idx + 1))

\* cur advances by a whole step, whatever the length of the emitted range.
next_advance_step(i) ==
    IF i.cur >= i.offset + i.size
    THEN [item |-> None, it |-> i]
    ELSE [item |-> Some([idx |-> cache_index(i), cache_range |-> cache_range(i),
                         total_range |-> total_range(i)]),
          it |-> [i EXCEPT !.cur = i.cur + i.step]]

\* Iterator::next: the item (None, or Some of the triple) and the iterator after
next(i) ==
    IF i.cur >= i.offset + i.size
    THEN [item |-> None, it |-> i]
    ELSE LET cr == cache_range(i)
         IN  [item |-> Some([idx |-> cache_index(i), cache_range |-> cr,
                             total_range |-> total_range(i)]),
              it |-> [i EXCEPT !.cur = i.cur + Unwrap(cr.size)]]

(***************************************************************************)
(* Cache key derivation                                                    *)
(***************************************************************************)
format_content_cache_path(path, idx) == path \o ".occ_" \o ToString(idx)

format_meta_cache_path(path) == path \o ".omc"

(***************************************************************************)
(* The two stores.  A store is a function from the paths it holds to their *)
(* bytes.  Reads honour a BytesRange, clipped at the end of the object.    *)
(***************************************************************************)
Paths == {"a", "a.omc", "a.occ_0"}

InitialContent(p) ==
    CASE p = "a" -> <<10, 11, 12, 13, 14>>
      [] p = "a.omc" -> <<20, 21, 22>>
      [] OTHER -> <<30, 31>>

\* the body a caller writes through the layer
Bodies == {<<40, 41, 42, 43>>}

Has(store, k) == k \in DOMAIN store
Put(store, k, v) == [x \in (DOMAIN store) \cup {k} |-> IF x = k THEN v ELSE store[x]]
Del(store, k) == [x \in (DOMAIN store) \ {k} |-> store[x]]

Ok(fields) == [st |-> "ok"] @@ fields
Err(kind) == [st |-> "err", kind |-> kind]
Panic == [st |-> "panic"]

\* bytes [from, from + n) of bs, clipped at the end of bs
Take(bs, from, n) == SubSeq(bs, from + 1, Min(from + n, Len(bs)))

ApplyRange(bs, br) ==
    CASE IsSome(br.offset) /\ IsSome(br.size) -> Take(bs, Unwrap(br.offset), Unwrap(br.size))
      [] IsSome(br.offset) /\ ~IsSome(br.size) -> Take(bs, Unwrap(br.offset), Len(bs))
      [] ~IsSome(br.offset) /\ IsSome(br.size) ->
            Take(bs, Len(bs) - Min(Unwrap(br.size), Len(bs)), Len(bs))
      [] OTHER -> bs

\* Accessor::read: ObjectNotFound for a missing path, else the ranged bytes
\* and their number as the content length of the response
AccRead(store, k, br) ==
    IF Has(store, k)
    THEN Ok([bytes |-> ApplyRange(store[k], br), length |-> Len(ApplyRange(store[k], br))])
    ELSE Err("ObjectNotFound")

ObjectMetadata(len) == [mode |-> "FILE", content_length |-> len]

\* Accessor::stat
AccStat(store, k) ==
    IF Has(store, k) THEN Ok([meta |-> ObjectMetadata(Len(store[k]))])
    ELSE Err("ObjectNotFound")

(***************************************************************************)
(* Metadata codec (bincode, standard configuration): the variant index of  *)
(* the mode, then the content length as Some(varint).                      *)
(***************************************************************************)
encode_metadata(meta) == <<0, 1, meta.content_length>>

decode_metadata(bs) ==
    IF Len(bs) >= 3 /\ bs[1] = 0 /\ bs[2] = 1
    THEN Ok([meta |-> ObjectMetadata(bs[3])])
    ELSE Err("Unexpected")

\* BytesContentRange::from_bytes_range(content_length, range).to_bytes_range()
NormalizeRange(len, br) ==
    CASE IsSome(br.offset) /\ IsSome(br.size) -> br
      [] IsSome(br.offset) /\ ~IsSome(br.size) ->
            RangeFrom(Min(Unwrap(br.offset), len), len)
      [] ~IsSome(br.offset) /\ IsSome(br.size) ->
            RangeFrom(len - Min(Unwrap(br.size), len), len)
      [] OTHER -> RangeFrom(0, len)

\* the slice of the buffered origin chunk handed to the caller on a miss:
\* Vec::split_off(at) panics when at > len
SliceBuffer(bs, br) ==
    CASE IsSome(br.offset) /\ IsSome(br.size) ->
            IF Unwrap(br.offset) > Len(bs) THEN Panic
            ELSE Ok([bytes |-> Take(bs, Unwrap(br.offset), Unwrap(br.size))])
      [] IsSome(br.offset) /\ ~IsSome(br.size) ->
            IF Unwrap(br.offset) > Len(bs) THEN Panic
            ELSE Ok([bytes |-> Take(bs, Unwrap(br.offset), Len(bs))])
      [] ~IsSome(br.offset) /\ IsSome(br.size) ->
            IF Unwrap(br.size) > Len(bs) THEN Panic
            ELSE Ok([bytes |-> Take(bs, Len(bs) - Unwrap(br.size), Len(bs))])
      [] OTHER -> Ok([bytes |-> bs])

(***************************************************************************)
(* Tasks: callers of the layer.  A task runs one operation at a time; its  *)
(* pc is the await point the operation has reached.  calls is the log of   *)
(* the Accessor calls the operation has made, cache0 / origin0 the stores  *)
(* when it started.                                                        *)
(***************************************************************************)
Tasks == {1, 2}

NoRes == [st |-> "none"]
NoFut == [pc |-> "none", tr |-> None, src |-> <<>>, size |-> 0, bs |-> <<>>, res |-> NoRes]
NoReader ==
    [state |-> "None", it |-> FixedCacheRangeIterator_new(0, 0, 1), fut |-> NoFut,
     stream |-> <<>>, out |-> <<>>, last |-> "none", skipped |-> FALSE, polls |-> 0]

IdleTask ==
    [op |-> "idle", pc |-> "idle", path |-> "", range |-> BytesRange(None, None),
     body |-> <<>>, res |-> NoRes, calls |-> <<>>, buf |-> <<>>, meta |-> None,
     rd |-> NoReader, cache0 |-> <<>>, origin0 |-> <<>>, warm |-> FALSE, fresh |-> FALSE]

Call(to, op, key, r) == [to |-> to, op |-> op, key |-> key, r |-> r]
Logged(tk, c) == [tk EXCEPT !.calls = Append(@, c)]
Finish(tk, res) == [tk EXCEPT !.pc = "done", !.res = res]

Mutating == {"create", "write", "delete"}
AllIdle == \A u \in Tasks : tasks[u].op = "idle"
\* the one caller of the sequential specification
Sequential(t) == AllIdle /\ t = 1

\* outcomes of one call to the cache store: it answers, or fails with an
\* error that is not ObjectNotFound
CacheOutcomes == IF faults > 0 THEN {"ok", "fault"} ELSE {"ok"}
Spend(o) == faults' = IF o = "ok" THEN faults ELSE faults - 1

\* The origin operation first: the invalidation is left out.
EntryInnerFirst(op) ==
    CASE op \in Mutating -> "inner"
      [] op = "stat" -> "sread"
      [] OTHER -> IF strategy.kind = "Whole" THEN "wread" ELSE "fnew"

\* first await point of an operation
Entry(op) ==
    CASE op \in Mutating -> "cdel"
      [] op = "stat" -> "sread"
      [] OTHER -> IF strategy.kind = "Whole" THEN "wread" ELSE "fnew"

Ranges ==
    {BytesRange(Some(o), Some(s)) : o \in 0..MaxOffset, s \in 0..MaxSize}
        \cup {BytesRange(Some(o), None) : o \in 0..MaxOffset}
        \cup {BytesRange(None, Some(s)) : s \in 0..MaxSize}
        \cup {BytesRange(None, None)}

Start(t, op, path, range, body) ==
    /\ tasks[t].op = "idle"
    /\ hist.ops < MaxOps
    /\ tasks' = [tasks EXCEPT ![t] =
            [IdleTask EXCEPT !.op = op, !.pc = Entry(op), !.path = path,
                             !.range = range, !.body = body,
                             !.cache0 = cache, !.origin0 = origin,
                             !.warm = (path \in hist.statted),
                             !.fresh = (hist.lastInv = path)]]
    /\ hist' = [hist EXCEPT !.ops = @ + 1, !.lastInv = "",
                            !.statted = IF op \in Mutating THEN @ \ {path} ELSE @]
    /\ UNCHANGED <<strategy, origin, cache, faults, iterVars>>

StartCreate(t) == \E p \in Paths : Start(t, "create", p, BytesRange(None, None), <<>>)
StartWrite(t) == \E p \in Paths, b \in Bodies : Start(t, "write", p, BytesRange(None, None), b)
StartDelete(t) == \E p \in Paths : Start(t, "delete", p, BytesRange(None, None), <<>>)
StartStat(t) == \E p \in Paths : Start(t, "stat", p, BytesRange(None, None), <<>>)
StartRead(t) == \E p \in Paths, r \in Ranges : Start(t, "read", p, r, <<>>)

(***************************************************************************)
(* create / write / delete                                                 *)
(***************************************************************************)
\* The delete is acknowledged but the metadata entry stays in the cache.
InvalidateMetaSkipped(t) ==
    LET tk == tasks[t]
        key == format_meta_cache_path(tk.path)
    IN  /\ tk.pc = "cdel"
        /\ tasks' = [tasks EXCEPT ![t] =
              [Logged(tk, Call("cache", "delete", key, "ok")) EXCEPT !.pc = "inner"]]
        /\ UNCHANGED <<strategy, origin, cache, faults, hist, iterVars>>

\* self.cache.delete(&format_meta_cache_path(path), OpDelete::new()).await?
InvalidateMeta(t) ==
    LET tk == tasks[t]
        key == format_meta_cache_path(tk.path)
    IN  /\ tk.pc = "cdel"
        /\ \E o \in CacheOutcomes :
            /\ Spend(o)
            /\ IF o = "ok"
               THEN /\ cache' = Del(cache, key)
                    /\ tasks' = [tasks EXCEPT ![t] =
                          [Logged(tk, Call("cache", "delete", key, "ok")) EXCEPT !.pc = "inner"]]
               ELSE /\ cache' = cache
                    /\ tasks' = [tasks EXCEPT ![t] =
                          Finish(Logged(tk, Call("cache", "delete", key, "fault")),
                                 Err("Unexpected"))]
        /\ UNCHANGED <<strategy, origin, hist, iterVars>>

\* what the origin store does for create / write / delete
InnerApply(op, path, body, store) ==
    CASE op = "create" -> Put(store, path, <<>>)
      [] op = "write" -> Put(store, path, body)
      [] OTHER -> Del(store, path)

\* self.inner.create / write / delete (path, args).await
InnerMutate(t) ==
    LET tk == tasks[t]
    IN  /\ tk.pc = "inner"
        /\ origin' = InnerApply(tk.op, tk.path, tk.body, origin)
        /\ tasks' = [tasks EXCEPT ![t] =
              Finish(Logged(tk, Call("inner", tk.op, tk.path, "ok")), Ok([done |-> tk.op]))]
        /\ hist' = [hist EXCEPT !.lastInv = tk.path, !.modified = TRUE]
        /\ UNCHANGED <<strategy, cache, faults, iterVars>>

(***************************************************************************)
(* stat                                                                    *)
(***************************************************************************)
\* self.cache.read(&format_meta_cache_path(path), OpRead::new()).await, and on
\* a hit read_to_end and decode_metadata
StatCacheRead(t) ==
    LET tk == tasks[t]
        key == format_meta_cache_path(tk.path)
        r == AccRead(cache, key, BytesRange(None, None))
    IN  /\ tk.pc = "sread"
        /\ \E o \in CacheOutcomes \cup (IF faults > 0 /\ Has(cache, key) THEN {"stream"} ELSE {}) :
            /\ Spend(o)
            /\ tasks' = [tasks EXCEPT ![t] =
                  CASE o = "fault" ->
                         [Logged(tk, Call("cache", "read", key, "fault")) EXCEPT !.pc = "sbypass"]
                    [] o = "stream" ->
                         Finish(Logged(tk, Call("cache", "read", key, "stream")), Err("Unexpected"))
                    [] o = "ok" /\ r.st = "ok" ->
                         Finish(Logged(tk, Call("cache", "read", key, "ok")),
                                decode_metadata(r.bytes))
                    [] OTHER ->
                         [Logged(tk, Call("cache", "read", key, "notfound")) EXCEPT !.pc = "sinner"]]
        /\ UNCHANGED <<strategy, origin, cache, hist, iterVars>>

\* Negative caching: a path the origin does not hold is written back as an
\* empty object's metadata.
StatInnerMissNegative(t) ==
    LET tk == tasks[t]
        r == AccStat(origin, tk.path)
    IN  /\ tk.pc = "sinner"
        /\ tasks' = [tasks EXCEPT ![t] =
              [Logged(tk, Call("inner", "stat", tk.path, IF r.st = "ok" THEN "ok" ELSE "notfound"))
                   EXCEPT !.pc = "swrite",
                          !.meta = Some(IF r.st = "ok" THEN r.meta ELSE ObjectMetadata(0))]]
        /\ UNCHANGED <<strategy, origin, cache, faults, hist, iterVars>>

\* let meta = self.inner.stat(path, args).await?.into_metadata()
StatInnerMiss(t) ==
    LET tk == tasks[t]
        r == AccStat(origin, tk.path)
    IN  /\ tk.pc = "sinner"
        /\ tasks' = [tasks EXCEPT ![t] =
              IF r.st = "ok"
              THEN [Logged(tk, Call("inner", "stat", tk.path, "ok"))
                        EXCEPT !.pc = "swrite", !.meta = Some(r.meta)]
              ELSE Finish(Logged(tk, Call("inner", "stat", tk.path, "notfound")), r)]
        /\ UNCHANGED <<strategy, origin, cache, faults, hist, iterVars>>

\* the key of the write-back after a stat miss: self.cache.write(path, ...)
StatWriteBackKey(path) == path

\* self.cache.write(path, OpWrite::new(bs.len()), Cursor::new(bs)).await?
StatCacheWrite(t) ==
    LET tk == tasks[t]
        key == StatWriteBackKey(tk.path)
        bs == encode_metadata(Unwrap(tk.meta))
    IN  /\ tk.pc = "swrite"
        /\ \E o \in CacheOutcomes :
            /\ Spend(o)
            /\ IF o = "ok"
               THEN /\ cache' = Put(cache, key, bs)
                    /\ tasks' = [tasks EXCEPT ![t] =
                          Finish(Logged(tk, Call("cache", "write", key, "ok")),
                                 Ok([meta |-> Unwrap(tk.meta)]))]
                    /\ hist' = [hist EXCEPT !.statted = @ \cup {tk.path}]
               ELSE /\ cache' = cache
                    /\ tasks' = [tasks EXCEPT ![t] =
                          Finish(Logged(tk, Call("cache", "write", key, "fault")),
                                 Err("Unexpected"))]
                    /\ hist' = hist
        /\ UNCHANGED <<strategy, origin, iterVars>>

\* Err(_) => self.inner.stat(path, args).await
StatInnerBypass(t) ==
    LET tk == tasks[t]
        r == AccStat(origin, tk.path)
    IN  /\ tk.pc = "sbypass"
        /\ tasks' = [tasks EXCEPT ![t] =
              Finish(Logged(tk, Call("inner", "stat", tk.path,
                                     IF r.st = "ok" THEN "ok" ELSE "notfound")), r)]
        /\ UNCHANGED <<strategy, origin, cache, faults, hist, iterVars>>

(***************************************************************************)
(* read, CacheStrategy::Whole: new_whole_cache_reader                      *)
(***************************************************************************)
\* match self.cache.read(path, args.clone()).await
WholeCacheRead(t) ==
    LET tk == tasks[t]
        r == AccRead(cache, tk.path, tk.range)
    IN  /\ tk.pc = "wread"
        /\ \E o \in CacheOutcomes :
            /\ Spend(o)
            /\ tasks' = [tasks EXCEPT ![t] =
                  CASE o = "fault" ->
                         Finish(Logged(tk, Call("cache", "read", tk.path, "fault")),
                                Err("Unexpected"))
                    [] o = "ok" /\ r.st = "ok" ->
                         Finish(Logged(tk, Call("cache", "read", tk.path, "ok")), r)
                    [] OTHER ->
                         [Logged(tk, Call("cache", "read", tk.path, "notfound"))
                              EXCEPT !.pc = "winner"]]
        /\ UNCHANGED <<strategy, origin, cache, hist, iterVars>>

\* let (rp, r) = self.inner.read(path, OpRead::new()).await?
WholeInnerRead(t) ==
    LET tk == tasks[t]
        r == AccRead(origin, tk.path, BytesRange(None, None))
    IN  /\ tk.pc = "winner"
        /\ tasks' = [tasks EXCEPT ![t] =
              IF r.st = "ok"
              THEN [Logged(tk, Call("inner", "read", tk.path, "ok"))
                        EXCEPT !.pc = "wwrite", !.buf = r.bytes]
              ELSE Finish(Logged(tk, Call("inner", "read", tk.path, "notfound")), r)]
        /\ UNCHANGED <<strategy, origin, cache, faults, hist, iterVars>>

\* self.cache.write(path, OpWrite::new(length), r).await?
WholeCacheWrite(t) ==
    LET tk == tasks[t]
    IN  /\ tk.pc = "wwrite"
        /\ \E o \in CacheOutcomes :
            /\ Spend(o)
            /\ IF o = "ok"
               THEN /\ cache' = Put(cache, tk.path, tk.buf)
                    /\ tasks' = [tasks EXCEPT ![t] =
                          [Logged(tk, Call("cache", "write", tk.path, "ok"))
                               EXCEPT !.pc = "wread2"]]
               ELSE /\ cache' = cache
                    /\ tasks' = [tasks EXCEPT ![t] =
                          Finish(Logged(tk, Call("cache", "write", tk.path, "fault")),
                                 Err("Unexpected"))]
        /\ UNCHANGED <<strategy, origin, hist, iterVars>>

\* self.cache.read(path, args).await
WholeCacheReread(t) ==
    LET tk == tasks[t]
        r == AccRead(cache, tk.path, tk.range)
    IN  /\ tk.pc = "wread2"
        /\ \E o \in CacheOutcomes :
            /\ Spend(o)
            /\ tasks' = [tasks EXCEPT ![t] =
                  IF o = "ok"
                  THEN Finish(Logged(tk, Call("cache", "read", tk.path,
                                              IF r.st = "ok" THEN "ok" ELSE "notfound")), r)
                  ELSE Finish(Logged(tk, Call("cache", "read", tk.path, "fault")),
                              Err("Unexpected"))]
        /\ UNCHANGED <<strategy, origin, cache, hist, iterVars>>

(***************************************************************************)
(* read, CacheStrategy::Fixed(step): new_fixed_cache_reader                *)
(***************************************************************************)
NewReader(i) == [NoReader EXCEPT !.state = "Iterating", !.it = i]

FixedNew(t) ==
    LET tk == tasks[t]
        full == IsSome(tk.range.offset) /\ IsSome(tk.range.size)
        r == AccStat(origin, tk.path)
        br == IF full THEN tk.range ELSE NormalizeRange(r.meta.content_length, tk.range)
        i == FixedCacheRangeIterator_new(Unwrap(br.offset), Unwrap(br.size), strategy.step)
    IN  /\ tk.pc = "fnew"
        /\ tasks' = [tasks EXCEPT ![t] =
              CASE full ->
                     [tk EXCEPT !.pc = "poll", !.res = Ok([length |-> i.size]),
                                !.rd = NewReader(i)]
                [] ~full /\ r.st = "ok" ->
                     [Logged(tk, Call("inner", "stat", tk.path, "ok"))
                          EXCEPT !.pc = "poll", !.res = Ok([length |-> i.size]),
                                 !.rd = NewReader(i)]
                [] OTHER ->
                     Finish(Logged(tk, Call("inner", "stat", tk.path, "notfound")), r)]
        /\ UNCHANGED <<strategy, origin, cache, faults, hist, iterVars>>

(***************************************************************************)
(* FixedCacheReader::poll_read                                             *)
(***************************************************************************)
\* FixedCacheState::Iterating: it.next(); None ends the stream, Some builds
\* the load future and moves to Fetching
PollIterating(t) ==
    LET tk == tasks[t]
        nx == next(tk.rd.it)
    IN  /\ tk.pc = "poll"
        /\ tk.rd.state = "Iterating"
        /\ tasks' = [tasks EXCEPT ![t] =
              IF nx.item = None
              THEN [tk EXCEPT !.pc = "done", !.rd.last = "eof"]
              ELSE [tk EXCEPT !.rd.state = "Fetching", !.rd.it = nx.it,
                              !.rd.fut = [NoFut EXCEPT !.pc = "cache_read", !.tr = nx.item]]]
        /\ UNCHANGED <<strategy, origin, cache, faults, hist, iterVars>>

FutKey(tk) == format_content_cache_path(tk.path, Unwrap(tk.rd.fut.tr).idx)

\* Any error of the cache read is taken as a miss: the origin is read.
FutCacheReadFallback(t) ==
    LET tk == tasks[t]
        tr == Unwrap(tk.rd.fut.tr)
        key == FutKey(tk)
        r == AccRead(cache, key, tr.cache_range)
    IN  /\ tk.pc = "poll"
        /\ tk.rd.state = "Fetching"
        /\ tk.rd.fut.pc = "cache_read"
        /\ \E o \in CacheOutcomes :
            /\ Spend(o)
            /\ tasks' = [tasks EXCEPT ![t] =
                  CASE o = "fault" ->
                         [Logged(tk, Call("cache", "read", key, "fault"))
                              EXCEPT !.rd.fut.pc = "inner_read"]
                    [] o = "ok" /\ r.st = "ok" ->
                         [Logged(tk, Call("cache", "read", key, "ok"))
                              EXCEPT !.rd.fut.pc = "ready", !.rd.fut.res = r]
                    [] OTHER ->
                         [Logged(tk, Call("cache", "read", key, "notfound"))
                              EXCEPT !.rd.fut.pc = "inner_read"]]
        /\ UNCHANGED <<strategy, origin, cache, hist, iterVars>>

\* the load future: cache.read(&cache_path, OpRead::new().with_range(cache_range)).await
FutCacheRead(t) ==
    LET tk == tasks[t]
        tr == Unwrap(tk.rd.fut.tr)
        key == FutKey(tk)
        r == AccRead(cache, key, tr.cache_range)
    IN  /\ tk.pc = "poll"
        /\ tk.rd.state = "Fetching"
        /\ tk.rd.fut.pc = "cache_read"
        /\ \E o \in CacheOutcomes :
            /\ Spend(o)
            /\ tasks' = [tasks EXCEPT ![t] =
                  CASE o = "fault" ->
                         [Logged(tk, Call("cache", "read", key, "fault"))
                              EXCEPT !.rd.fut.pc = "ready", !.rd.fut.res = Err("Unexpected")]
                    [] o = "ok" /\ r.st = "ok" ->
                         [Logged(tk, Call("cache", "read", key, "ok"))
                              EXCEPT !.rd.fut.pc = "ready", !.rd.fut.res = r]
                    [] OTHER ->
                         [Logged(tk, Call("cache", "read", key, "notfound"))
                              EXCEPT !.rd.fut.pc = "inner_read"]]
        /\ UNCHANGED <<strategy, origin, cache, hist, iterVars>>

\* The origin is asked for the bytes the caller wants, not for the aligned chunk.
FutInnerReadIntra(t) ==
    LET tk == tasks[t]
        tr == Unwrap(tk.rd.fut.tr)
        r == AccRead(origin, tk.path,
                     BytesRange(Some(Unwrap(tr.total_range.offset) + Unwrap(tr.cache_range.offset)),
                                tr.cache_range.size))
    IN  /\ tk.pc = "poll"
        /\ tk.rd.state = "Fetching"
        /\ tk.rd.fut.pc = "inner_read"
        /\ tasks' = [tasks EXCEPT ![t] =
              IF r.st = "ok"
              THEN [Logged(tk, Call("inner", "read", tk.path, "ok"))
                        EXCEPT !.rd.fut.pc = "copy", !.rd.fut.src = r.bytes,
                               !.rd.fut.size = r.length]
              ELSE [Logged(tk, Call("inner", "read", tk.path, "notfound"))
                        EXCEPT !.rd.fut.pc = "ready", !.rd.fut.res = r]]
        /\ UNCHANGED <<strategy, origin, cache, faults, hist, iterVars>>

\* the load future: inner.read(&path, OpRead::new().with_range(total_range)).await?
\* gives the stream of the origin chunk and its content length
FutInnerRead(t) ==
    LET tk == tasks[t]
        tr == Unwrap(tk.rd.fut.tr)
        r == AccRead(origin, tk.path, tr.total_range)
    IN  /\ tk.pc = "poll"
        /\ tk.rd.state = "Fetching"
        /\ tk.rd.fut.pc = "inner_read"
        /\ tasks' = [tasks EXCEPT ![t] =
              IF r.st = "ok"
              THEN [Logged(tk, Call("inner", "read", tk.path, "ok"))
                        EXCEPT !.rd.fut.pc = "copy", !.rd.fut.src = r.bytes,
                               !.rd.fut.size = r.length]
              ELSE [Logged(tk, Call("inner", "read", tk.path, "notfound"))
                        EXCEPT !.rd.fut.pc = "ready", !.rd.fut.res = r]]
        /\ UNCHANGED <<strategy, origin, cache, faults, hist, iterVars>>

\* The copy ends after its first piece, whatever the stream still holds.
FutCopyOnePiece(t) ==
    LET tk == tasks[t]
        n == Min(CopyPiece, Len(tk.rd.fut.src))
    IN  /\ tk.pc = "poll"
        /\ tk.rd.state = "Fetching"
        /\ tk.rd.fut.pc = "copy"
        /\ tasks' = [tasks EXCEPT ![t] =
              [tk EXCEPT !.rd.fut.pc = "cache_write",
                         !.rd.fut.bs = @ \o SubSeq(tk.rd.fut.src, 1, n),
                         !.rd.fut.src = SubSeq(@, n + 1, Len(@))]]
        /\ UNCHANGED <<strategy, origin, cache, faults, hist, iterVars>>

\* the load future: copy(r, &mut bs).await, one piece of the origin stream
\* per step; the copy ends when the stream yields no more bytes
FutCopy(t) ==
    LET tk == tasks[t]
        n == Min(CopyPiece, Len(tk.rd.fut.src))
    IN  /\ tk.pc = "poll"
        /\ tk.rd.state = "Fetching"
        /\ tk.rd.fut.pc = "copy"
        /\ tasks' = [tasks EXCEPT ![t] =
              IF n = 0
              THEN [tk EXCEPT !.rd.fut.pc = "cache_write"]
              ELSE [tk EXCEPT !.rd.fut.bs = @ \o SubSeq(tk.rd.fut.src, 1, n),
                              !.rd.fut.src = SubSeq(@, n + 1, Len(@))]]
        /\ UNCHANGED <<strategy, origin, cache, faults, hist, iterVars>>

\* The cache write stores the slice the caller asked for, not the chunk.
FutCacheWriteSlice(t) ==
    LET tk == tasks[t]
        tr == Unwrap(tk.rd.fut.tr)
        key == FutKey(tk)
    IN  /\ tk.pc = "poll"
        /\ tk.rd.state = "Fetching"
        /\ tk.rd.fut.pc = "cache_write"
        /\ \E o \in CacheOutcomes :
            /\ Spend(o)
            /\ IF o = "ok"
               THEN /\ cache' = Put(cache, key, ApplyRange(tk.rd.fut.bs, tr.cache_range))
                    /\ tasks' = [tasks EXCEPT ![t] =
                          [Logged(tk, Call("cache", "write", key, "ok"))
                               EXCEPT !.rd.fut.pc = "ready",
                                      !.rd.fut.res = SliceBuffer(tk.rd.fut.bs, tr.cache_range)]]
               ELSE /\ cache' = cache
                    /\ tasks' = [tasks EXCEPT ![t] =
                          [Logged(tk, Call("cache", "write", key, "fault"))
                               EXCEPT !.rd.fut.pc = "ready", !.rd.fut.res = Err("Unexpected")]]
        /\ UNCHANGED <<strategy, origin, hist, iterVars>>

\* the load future: cache.write(&cache_path, OpWrite::new(size), bs.clone()).await?
\* and the slice of cache_range out of bs
FutCacheWrite(t) ==
    LET tk == tasks[t]
        tr == Unwrap(tk.rd.fut.tr)
        key == FutKey(tk)
    IN  /\ tk.pc = "poll"
        /\ tk.rd.state = "Fetching"
        /\ tk.rd.fut.pc = "cache_write"
        /\ \E o \in CacheOutcomes :
            /\ Spend(o)
            /\ IF o = "ok"
               THEN /\ cache' = Put(cache, key, tk.rd.fut.bs)
                    /\ tasks' = [tasks EXCEPT ![t] =
                          [Logged(tk, Call("cache", "write", key, "ok"))
                               EXCEPT !.rd.fut.pc = "ready",
                                      !.rd.fut.res = SliceBuffer(tk.rd.fut.bs, tr.cache_range)]]
               ELSE /\ cache' = cache
                    /\ tasks' = [tasks EXCEPT ![t] =
                          [Logged(tk, Call("cache", "write", key, "fault"))
                               EXCEPT !.rd.fut.pc = "ready", !.rd.fut.res = Err("Unexpected")]]
        /\ UNCHANGED <<strategy, origin, hist, iterVars>>

\* FixedCacheState::Fetching: let r = ready!(fut.poll_unpin(cx))?
\* Ok moves to Reading and drops the future (its triple and the declared
\* length of its cache write stay on record).  Err returns and leaves the state Fetching with the
\* completed future in it; polling a completed async block panics, as does
\* the slice of the load future.
PollFetching(t) ==
    LET tk == tasks[t]
        r == tk.rd.fut.res
    IN  /\ tk.pc = "poll"
        /\ tk.rd.state = "Fetching"
        /\ tk.rd.fut.pc \in {"ready", "completed"}
        /\ tasks' = [tasks EXCEPT ![t] =
              CASE tk.rd.fut.pc = "completed" ->
                     [tk EXCEPT !.pc = "done", !.rd.last = "panic"]
                [] r.st = "ok" ->
                     [tk EXCEPT !.rd.state = "Reading", !.rd.stream = r.bytes,
                                !.rd.fut = [NoFut EXCEPT !.tr = tk.rd.fut.tr,
                                                         !.size = tk.rd.fut.size]]
                [] r.st = "err" ->
                     [tk EXCEPT !.pc = "done", !.rd.last = "err", !.res = r,
                                !.rd.fut.pc = "completed"]
                [] OTHER ->
                     [tk EXCEPT !.pc = "done", !.rd.last = "panic", !.res = r]]
        /\ UNCHANGED <<strategy, origin, cache, faults, hist, iterVars>>

\* FixedCacheState::Reading: n bytes of the chunk stream into a buffer of
\* buf bytes; n = 0 goes back to Iterating and drops the chunk stream.
\* skipped records that the stream dropped still held bytes.
PollReading(t) ==
    LET tk == tasks[t]
    IN  /\ tk.pc = "poll"
        /\ tk.rd.state = "Reading"
        /\ \E buf \in 0..MaxBuf :
            LET n == Min(buf, Len(tk.rd.stream))
            IN  tasks' = [tasks EXCEPT ![t] =
                   IF n = 0
                   THEN [tk EXCEPT !.rd.state = "Iterating", !.rd.stream = <<>>,
                                   !.rd.skipped = @ \/ tk.rd.stream # <<>>]
                   ELSE [tk EXCEPT !.rd.out = @ \o SubSeq(tk.rd.stream, 1, n),
                                   !.rd.stream = SubSeq(@, n + 1, Len(@)),
                                   !.rd.last = "data"]]
        /\ UNCHANGED <<strategy, origin, cache, faults, hist, iterVars>>

\* the caller takes the result of a finished operation
Return(t) ==
    /\ tasks[t].pc = "done"
    /\ tasks' = [tasks EXCEPT ![t] = IdleTask]
    /\ UNCHANGED <<strategy, origin, cache, faults, hist, iterVars>>

\* the caller calls poll_read again on a reader that has returned the end of
\* the stream or an error
ReadAgain(t) ==
    LET tk == tasks[t]
    IN  /\ tk.op = "read"
        /\ tk.pc = "done"
        /\ tk.rd.last \in {"eof", "err"}
        /\ tk.rd.polls < MaxRepolls
        /\ tasks' = [tasks EXCEPT ![t] = [tk EXCEPT !.pc = "poll", !.rd.polls = @ + 1]]
        /\ UNCHANGED <<strategy, origin, cache, faults, hist, iterVars>>

\* the caller drops a reader it has not drained
DropReader(t) ==
    /\ tasks[t].pc = "poll"
    /\ tasks' = [tasks EXCEPT ![t] = IdleTask]
    /\ UNCHANGED <<strategy, origin, cache, faults, hist, iterVars>>

(***************************************************************************)
(* The layer with its two stores: the cache starts empty, the origin holds *)
(* one of InitialOrigins; one caller runs one operation at a time.         *)
(***************************************************************************)
Steps == {2}
Strategies == {[kind |-> "Whole", step |-> 0]} \cup {[kind |-> "Fixed", step |-> s] : s \in Steps}

NoHist == [ops |-> 0, lastInv |-> "", statted |-> {}, modified |-> FALSE]
\* the origin holds every path of Paths, or "a" alone
InitialOrigins == {Paths, {"a"}}

NoIter == FixedCacheRangeIterator_new(0, 0, 1)
NoEmitted == [items |-> <<>>, done |-> FALSE]

Init ==
    /\ strategy \in Strategies
    /\ \E present \in InitialOrigins : origin = [p \in present |-> InitialContent(p)]
    /\ cache = <<>>
    /\ tasks = [t \in Tasks |-> IdleTask]
    /\ faults = MaxFaults
    /\ hist = NoHist
    /\ it = NoIter
    /\ emitted = NoEmitted

Next ==
    \E t \in Tasks :
        \/ Sequential(t) /\ StartCreate(t)
        \/ Sequential(t) /\ StartWrite(t)
        \/ Sequential(t) /\ StartDelete(t)
        \/ Sequential(t) /\ StartStat(t)
        \/ Sequential(t) /\ StartRead(t)
        \/ InvalidateMeta(t)
        \/ InnerMutate(t)
        \/ StatCacheRead(t)
        \/ StatInnerMiss(t)
        \/ StatCacheWrite(t)
        \/ StatInnerBypass(t)
        \/ WholeCacheRead(t)
        \/ WholeInnerRead(t)
        \/ WholeCacheWrite(t)
        \/ WholeCacheReread(t)
        \/ FixedNew(t)
        \/ PollIterating(t)
        \/ FutCacheRead(t)
        \/ FutInnerRead(t)
        \/ FutCopy(t)
        \/ FutCacheWrite(t)
        \/ PollFetching(t)
        \/ PollReading(t)
        \/ ReadAgain(t)
        \/ Return(t)
        \/ DropReader(t)

Spec == Init /\ [][Next]_vars

(***************************************************************************)
(* Two callers read the same object through one Fixed layer at the same    *)
(* time: every step of one reader may fall between two steps of the other. *)
(***************************************************************************)
ConcPath == "a"
ConcRanges == {BytesRange(Some(o), Some(s)) : o \in 0..MaxOffset, s \in 0..MaxSize}

InitConc ==
    /\ strategy \in {st \in Strategies : st.kind = "Fixed"}
    /\ \E present \in InitialOrigins : origin = [p \in present |-> InitialContent(p)]
    /\ cache = <<>>
    /\ tasks = [t \in Tasks |-> IdleTask]
    /\ faults = 0
    /\ hist = NoHist
    /\ it = NoIter
    /\ emitted = NoEmitted

\* each caller reads once; caller 1 is the first to call read
StartReadConc(t) ==
    /\ hist.ops = t - 1
    /\ \E r \in ConcRanges : Start(t, "read", ConcPath, r, <<>>)

NextConc ==
    \E t \in Tasks :
        \/ StartReadConc(t)
        \/ FixedNew(t)
        \/ PollIterating(t)
        \/ FutCacheRead(t)
        \/ FutInnerRead(t)
        \/ FutCopy(t)
        \/ FutCacheWrite(t)
        \/ PollFetching(t)
        \/ PollReading(t)
        \/ Return(t)
        \/ DropReader(t)

SpecConc == InitConc /\ [][NextConc]_vars

(***************************************************************************)
(* The partitioner alone: FixedCacheRangeIterator over every               *)
(* (offset, size, step) of the bounds and the cases of                     *)
(* test_fixed_cache_range_iterator, collected as by Iterator::collect.     *)
(***************************************************************************)
IterCases ==
    {FixedCacheRangeIterator_new(o, s, st) :
        o \in 0..IterMaxOffset, s \in 0..IterMaxSize, st \in 1..IterMaxStep}
    \cup {FixedCacheRangeIterator_new(0, 1, 1000),
          FixedCacheRangeIterator_new(900, 1, 1000),
          FixedCacheRangeIterator_new(900, 100, 1000),
          FixedCacheRangeIterator_new(900, 101, 1000),
          FixedCacheRangeIterator_new(1001, 1, 1000)}

InitIter ==
    /\ strategy = [kind |-> "Whole", step |-> 0]
    /\ origin = <<>>
    /\ cache = <<>>
    /\ tasks = [t \in Tasks |-> IdleTask]
    /\ faults = 0
    /\ hist = NoHist
    /\ it \in IterCases
    /\ emitted = NoEmitted

\* one call of Iterator::next
IterNext ==
    LET nx == next(it)
    IN  /\ ~emitted.done
        /\ it' = nx.it
        /\ emitted' =
              IF nx.item = None
              THEN [emitted EXCEPT !.done = TRUE]
              ELSE [emitted EXCEPT !.items = Append(@, [cur |-> it.cur] @@ Unwrap(nx.item))]
        /\ UNCHANGED storeVars

NextIter == IterNext

SpecIter == InitIter /\ [][NextIter]_vars

(***************************************************************************)
(* Properties                                                              *)
(***************************************************************************)
\* the cache store answered every call of the operation
NoFault(tk) == \A i \in DOMAIN tk.calls : tk.calls[i].r \notin {"fault", "stream"}
CallsTo(tk, to) == {i \in DOMAIN tk.calls : tk.calls[i].to = to}
FullRange(br) == IsSome(br.offset) /\ IsSome(br.size)
\* the cache keys derived from path p
KeysOf(p) ==
    {p, format_meta_cache_path(p)}
        \cup {format_content_cache_path(p, i) : i \in 0..(MaxOffset + MaxSize)}

\* C1: under Fixed(step), on an unmodified origin, draining the reader of a
\* read whose fully specified range lies inside the object yields exactly
\* the origin bytes [offset, offset + size), for every sequence of positive
\* buffer sizes and whatever the layer has written to the cache before.
C1_FixedReadYieldsOriginBytes ==
    \A t \in Tasks :
        LET tk == tasks[t]
        IN  ( /\ tk.op = "read" /\ tk.pc = "done"
              /\ strategy.kind = "Fixed"
              /\ FullRange(tk.range)
              /\ ~hist.modified
              /\ Has(origin, tk.path)
              /\ Unwrap(tk.range.offset) + Unwrap(tk.range.size) <= Len(origin[tk.path])
              /\ ~tk.rd.skipped
              /\ NoFault(tk) )
            => /\ tk.rd.last = "eof"
               /\ tk.rd.out = Take(origin[tk.path], Unwrap(tk.range.offset),
                                   Unwrap(tk.range.size))

\* C2: under Whole, after reads and stats only (cache initially empty), a
\* read of an existing path returns the origin bytes restricted to the
\* caller's range.
C2_WholeReadReturnsOriginBytes ==
    \A t \in Tasks :
        LET tk == tasks[t]
        IN  ( /\ tk.op = "read" /\ tk.pc = "done"
              /\ strategy.kind = "Whole"
              /\ ~hist.modified
              /\ Has(origin, tk.path)
              /\ NoFault(tk) )
            => /\ tk.res.st = "ok"
               /\ tk.res.bytes = ApplyRange(origin[tk.path], tk.range)

\* C3: a stat on a path whose earlier stat missed the metadata cache and
\* succeeded, with no create / write / delete on the path in between, makes
\* no call to the origin.
C3_SecondStatServedFromCache ==
    \A t \in Tasks :
        LET tk == tasks[t]
        IN  (tk.op = "stat" /\ tk.pc = "done" /\ tk.warm /\ NoFault(tk))
            => CallsTo(tk, "inner") = {}

C5_StatMissWritesOnlyMetaKey ==
    \A t \in Tasks :
        LET tk == tasks[t]
            key == format_meta_cache_path(tk.path)
        IN  ( /\ tk.op = "stat" /\ tk.pc = "done"
              /\ \E i \in CallsTo(tk, "cache") :
                    tk.calls[i].op = "write" /\ tk.calls[i].r = "ok" )
            => /\ Has(cache, key)
               /\ cache[key] = encode_metadata(Unwrap(tk.meta))
               /\ \A k \in (DOMAIN cache \cup DOMAIN tk.cache0) \ {key} :
                     Has(cache, k) /\ Has(tk.cache0, k) /\ cache[k] = tk.cache0[k]

\* C6: when the cache store fails during a stat with an error other than
\* ObjectNotFound (on the metadata read or on the write-back), stat still
\* returns the result of the origin stat.
C6_StatIgnoresCacheErrors ==
    \A t \in Tasks :
        LET tk == tasks[t]
        IN  (tk.op = "stat" /\ tk.pc = "done" /\ ~NoFault(tk))
            => tk.res = AccStat(origin, tk.path)

\* C7: create, write and delete through the layer end as on the origin
\* directly, in the caller's outcome and in the origin's state, also when
\* the cache store fails the delete of the metadata entry.
C7_MutationsTransparent ==
    \A t \in Tasks :
        LET tk == tasks[t]
        IN  (tk.op \in Mutating /\ tk.pc = "done")
            => /\ tk.res.st = "ok"
               /\ origin = InnerApply(tk.op, tk.path, tk.body, tk.origin0)

\* C8: in create, write and delete the origin operation is invoked only
\* after the delete of "<path>.omc" on the cache store has completed.
C8_MetaDeleteBeforeOrigin ==
    \A t \in Tasks :
        LET tk == tasks[t]
        IN  tk.op \in Mutating =>
              /\ \A i \in CallsTo(tk, "inner") :
                    \E j \in 1..(i - 1) :
                        tk.calls[j] = Call("cache", "delete",
                                           format_meta_cache_path(tk.path), "ok")
              /\ origin # tk.origin0 => CallsTo(tk, "cache") # {}

C8_Witness ==
    \E t \in Tasks :
        LET tk == tasks[t]
        IN  /\ tk.op \in Mutating /\ tk.pc = "done"
            /\ Len(tk.calls) = 2 /\ tk.calls[2].to = "inner"
            /\ origin # tk.origin0

\* a read or stat of a path that neither store holds, the cache answering
MissingPathDone(tk) ==
    /\ tk.op \in {"read", "stat"} /\ tk.pc = "done"
    /\ ~Has(tk.origin0, tk.path)
    /\ DOMAIN tk.cache0 \cap KeysOf(tk.path) = {}
    /\ NoFault(tk)

\* C9 as stated: a read (either strategy) or a stat of a path that neither
\* store holds ends with ObjectNotFound and leaves the cache unchanged.
C9_MissingPathNotFound ==
    \A t \in Tasks :
        LET tk == tasks[t]
        IN  MissingPathDone(tk)
            => tk.res = Err("ObjectNotFound") /\ cache = tk.cache0

ZeroSizeFixed(tk) ==
    /\ tk.op = "read" /\ strategy.kind = "Fixed"
    /\ FullRange(tk.range) /\ Unwrap(tk.range.size) = 0

\* C9 amended: such a read or stat leaves the cache unchanged and ends with
\* ObjectNotFound, except a Fixed read with a fully specified range of
\* size 0, which ends as an empty stream without error.
C9_MissingPathAmended ==
    \A t \in Tasks :
        LET tk == tasks[t]
        IN  MissingPathDone(tk)
            => /\ cache = tk.cache0
               /\ IF ZeroSizeFixed(tk)
                  THEN tk.res = Ok([length |-> 0]) /\ tk.rd.last = "eof" /\ tk.rd.out = <<>>
                  ELSE tk.res = Err("ObjectNotFound")

C9_Witness ==
    \E t \in Tasks :
        LET tk == tasks[t]
        IN  MissingPathDone(tk) /\ ZeroSizeFixed(tk) /\ tk.rd.last = "eof"

\* C10: every triple the partitioner emits at position cur is
\* (cur / step, [cur % step, min(step, cur % step + offset + size - cur)),
\* [step * idx, step * (idx + 1))), cur starts at offset and advances by the
\* length of the emitted intra-chunk range; size = 0 yields no triple and
\* the first chunk index is offset / step.
C10_PartitionerTriples ==
    LET items == emitted.items
    IN  /\ \A k \in DOMAIN items :
            LET e == items[k]
                skipped == e.cur % it.step
                remaining == it.offset + it.size - e.cur
            IN  /\ e.idx = e.cur \div it.step
                /\ e.cache_range = RangeFrom(skipped, Min(it.step, skipped + remaining))
                /\ e.total_range = RangeFrom(it.step * e.idx, it.step * (e.idx + 1))
                /\ e.cur = IF k = 1 THEN it.offset
                           ELSE items[k - 1].cur + Unwrap(items[k - 1].cache_range.size)
        /\ it.size = 0 => items = <<>>
        /\ (emitted.done /\ it.size > 0) =>
              Len(items) >= 1 /\ items[1].idx = it.offset \div it.step

C10_Witness ==
    /\ emitted.done
    /\ Len(emitted.items) = 2
    /\ it.offset = 900
    /\ emitted.items[2].idx = 1

\* absolute object positions [from, to) of an emitted triple
AbsFrom(e) == it.step * e.idx + Unwrap(e.cache_range.offset)
AbsTo(e) == AbsFrom(e) + Unwrap(e.cache_range.size)

RECURSIVE SumSizes(_)
SumSizes(items) ==
    IF items = <<>> THEN 0
    ELSE Unwrap(items[1].cache_range.size) + SumSizes(Tail(items))

\* C11: the intra-chunk ranges the partitioner emits, as absolute object
\* positions, are non-empty, contiguous and non-overlapping, start at offset
\* and never pass offset + size; chunk indices never decrease and grow by at
\* most 1; once the partitioner is exhausted they cover [offset, offset + size)
\* and their lengths sum to size.
C11_PartitionCoversRange ==
    LET items == emitted.items
    IN  /\ \A k \in DOMAIN items :
            /\ AbsFrom(items[k]) < AbsTo(items[k])
            /\ AbsFrom(items[k]) = IF k = 1 THEN it.offset ELSE AbsTo(items[k - 1])
            /\ AbsTo(items[k]) <= it.offset + it.size
            /\ k > 1 => items[k].idx \in {items[k - 1].idx, items[k - 1].idx + 1}
        /\ emitted.done =>
              /\ SumSizes(items) = it.size
              /\ items # <<>> => AbsTo(items[Len(items)]) = it.offset + it.size

C11_Witness ==
    /\ emitted.done
    /\ Len(emitted.items) = 3
    /\ it.offset % it.step # 0
    /\ (it.offset + it.size) % it.step # 0

\* the origin bytes of the aligned window [step * idx, step * (idx + 1)) of
\* path p, truncated at the end of the object
AlignedChunk(p, idx) == Take(origin[p], strategy.step * idx, strategy.step)

\* the load of the current triple missed the cache and has completed
\* successfully: its last call is the cache write, and the reader is Reading
MissLoaded(tk) ==
    /\ tk.op = "read"
    /\ tk.rd.state = "Reading"
    /\ tk.calls # <<>>
    /\ tk.calls[Len(tk.calls)] = Call("cache", "write", FutKey(tk), "ok")

\* C12: after a chunk read for (path, idx) that missed the cache completes
\* successfully, the cache holds at "<path>.occ_<idx>" the origin bytes of
\* the aligned window [step*idx, step*(idx+1)) truncated at the end of the
\* object, written with a declared length equal to their number, whatever
\* sub-range of the chunk the caller asked for.
C12_MissStoresAlignedChunk ==
    \A t \in Tasks :
        LET tk == tasks[t]
            key == FutKey(tk)
            chunk == AlignedChunk(tk.path, Unwrap(tk.rd.fut.tr).idx)
        IN  MissLoaded(tk)
            => /\ Has(cache, key)
               /\ cache[key] = chunk
               /\ tk.rd.fut.size = Len(chunk)

C12_Witness ==
    \E t \in Tasks :
        LET tk == tasks[t]
        IN  /\ MissLoaded(tk)
            /\ Unwrap(Unwrap(tk.rd.fut.tr).cache_range.size) < Len(cache[FutKey(tk)])

\* the chunk indices a read of the bounds can reach
ChunkIndices == 0..(MaxOffset + MaxSize)

\* C13: on a chunk miss the origin chunk is completely buffered before the
\* cache write is issued, and the cache write has completed before a byte
\* of the chunk is handed to the caller; at every suspension point of a
\* read (where the caller may drop the reader) every cache entry the read
\* has written is a complete aligned chunk of the origin, never a part.
C13_MissStepsOrdered ==
    \A t \in Tasks :
        LET tk == tasks[t]
        IN  (tk.op = "read" /\ strategy.kind = "Fixed")
            => /\ tk.rd.fut.pc = "cache_write"
                    => /\ tk.rd.fut.src = <<>>
                       /\ tk.rd.fut.bs = AlignedChunk(tk.path, Unwrap(tk.rd.fut.tr).idx)
               /\ tk.rd.state = "Fetching" => tk.rd.stream = <<>>
               /\ tk.rd.state = "Reading"
                    => /\ tk.calls # <<>>
                       /\ tk.calls[Len(tk.calls)] \in
                             {Call("cache", "read", FutKey(tk), "ok"),
                              Call("cache", "write", FutKey(tk), "ok")}
               /\ \A k \in DOMAIN cache :
                     (~Has(tk.cache0, k) \/ cache[k] # tk.cache0[k])
                     => \E idx \in ChunkIndices :
                           /\ k = format_content_cache_path(tk.path, idx)
                           /\ cache[k] = AlignedChunk(tk.path, idx)

\* the copy of a two-byte origin chunk is half done
C13_Witness ==
    \E t \in Tasks :
        LET tk == tasks[t]
        IN  /\ tk.op = "read" /\ tk.pc = "poll"
            /\ tk.rd.fut.pc = "copy"
            /\ tk.rd.fut.bs # <<>>
            /\ tk.rd.fut.src # <<>>
            /\ ~Has(cache, FutKey(tk))

\* the bytes a read with a fully specified range has to deliver
Requested(tk) == Take(origin[tk.path], Unwrap(tk.range.offset), Unwrap(tk.range.size))

\* the cache keys the task has found missing
MissedKeys(tk) ==
    {tk.calls[i].key : i \in {j \in DOMAIN tk.calls :
                                 tk.calls[j].op = "read" /\ tk.calls[j].r = "notfound"}}

\* C14: two readers of one layer read the same unmodified object at the
\* same time.  Under every interleaving of their steps, a reader that finds
\* a chunk missing reads it from the origin and then writes it to the cache
\* (also when the other reader does the same for the same chunk), each
\* reader delivers the origin bytes of its own range, and every chunk entry
\* of the cache holds the origin bytes of its aligned chunk.
C14_ConcurrentMisses ==
    /\ \A k \in DOMAIN cache :
          \E idx \in ChunkIndices :
             /\ k = format_content_cache_path(ConcPath, idx)
             /\ cache[k] = AlignedChunk(ConcPath, idx)
    /\ \A t \in Tasks :
          LET tk == tasks[t]
              n == Len(tk.calls)
          IN  tk.op = "read"
              => /\ \A i \in DOMAIN tk.calls :
                       tk.calls[i] = Call("cache", "read", tk.calls[i].key, "notfound")
                       => /\ i + 1 <= n => tk.calls[i + 1] = Call("inner", "read", tk.path, "ok")
                          /\ i + 2 <= n => tk.calls[i + 2] =
                                               Call("cache", "write", tk.calls[i].key, "ok")
                          /\ i + 2 > n => /\ tk.rd.state = "Fetching"
                                          /\ tk.rd.fut.pc \in {"inner_read", "copy", "cache_write"}
                 /\ ~tk.rd.skipped
                       => Take(Requested(tk), 0, Len(tk.rd.out)) = tk.rd.out
                 /\ (tk.pc = "done" /\ ~tk.rd.skipped)
                       => tk.rd.last = "eof" /\ tk.rd.out = Requested(tk)

\* both readers have missed the same chunk, fetched and written it, and
\* drained their different ranges
C14_Witness ==
    /\ \A t \in Tasks : tasks[t].op = "read" /\ tasks[t].pc = "done" /\ ~tasks[t].rd.skipped
    /\ tasks[1].range # tasks[2].range
    /\ tasks[1].rd.out # <<>> /\ tasks[2].rd.out # <<>>
    /\ MissedKeys(tasks[1]) \cap MissedKeys(tasks[2]) # {}

\* the keys at which store c holds content of object p as the origin o has
\* it: the whole object under Whole, aligned chunks under Fixed
ContentEntries(p, c, o) ==
    IF ~Has(o, p) THEN {}
    ELSE IF strategy.kind = "Whole" THEN {k \in {p} : Has(c, k) /\ c[k] = o[p]}
    ELSE {k \in {format_content_cache_path(p, i) : i \in ChunkIndices} :
             Has(c, k) /\ \E i \in ChunkIndices :
                             /\ k = format_content_cache_path(p, i)
                             /\ c[k] = Take(o[p], strategy.step * i, strategy.step)}

\* C15: create, write and delete through the layer touch no cache key but
\* "<path>.omc", and every content cache entry (the whole-object entry or
\* a chunk entry, of any object) that was in the cache when the operation
\* began is still there with the same bytes.
C15_MutationsKeepContentEntries ==
    \A t \in Tasks :
        LET tk == tasks[t]
        IN  tk.op \in Mutating
            => /\ \A i \in CallsTo(tk, "cache") :
                     tk.calls[i].key = format_meta_cache_path(tk.path)
               /\ \A p \in Paths :
                     \A k \in ContentEntries(p, tk.cache0, tk.origin0) :
                        Has(cache, k) /\ cache[k] = tk.cache0[k]

\* C16: the chunk reader has one chunk in flight: while the load of a triple
\* is Fetching no chunk stream is open, and the reader leaves Reading for
\* Iterating (and so issues the read for the next triple) only when the
\* current chunk stream has no byte left, whatever the sizes of the
\* caller's buffers.
C16_OneChunkInFlight ==
    [][\A t \in Tasks :
          /\ tasks'[t].rd.state = "Fetching" => tasks'[t].rd.stream = <<>>
          /\ (tasks[t].rd.state = "Reading" /\ tasks'[t].rd.state = "Iterating")
                => tasks[t].rd.stream = <<>>]_vars

\* the calls of the task that failed: a cache store error that is not
\* ObjectNotFound, or an error of the origin
FailedCalls(tk) ==
    {i \in DOMAIN tk.calls :
        \/ tk.calls[i].r = "fault"
        \/ tk.calls[i].to = "inner" /\ tk.calls[i].r = "notfound"}

\* C17: in a read (Whole reader or chunk reader) a failure of the cache read
\* other than ObjectNotFound, of the origin fetch or of the cache write-back
\* is the last call the read makes (no fall back to the origin), the read
\* ends with that error, and no byte of the failed chunk reaches the caller.
C17_ReadErrorsSurface ==
    \A t \in Tasks :
        LET tk == tasks[t]
        IN  tk.op = "read"
            => \A i \in FailedCalls(tk) :
                  /\ i = Len(tk.calls)
                  /\ tk.rd.stream = <<>>
                  /\ tk.rd.state # "Reading"
                  /\ tk.pc = "done"
                        => tk.res = IF tk.calls[i].r = "fault" THEN Err("Unexpected")
                                    ELSE Err("ObjectNotFound")
                  /\ tk.rd.state = "Fetching"
                        => LET tr == Unwrap(tk.rd.fut.tr)
                           IN  tk.rd.it.offset + Len(tk.rd.out)
                                  <= strategy.step * tr.idx + Unwrap(tr.cache_range.offset)

\* the write-back of the second chunk failed after the first chunk was
\* delivered, and the read has returned the error
C17_Witness ==
    \E t \in Tasks :
        LET tk == tasks[t]
        IN  /\ tk.op = "read" /\ tk.pc = "done"
            /\ tk.rd.out # <<>>
            /\ tk.rd.last = "err"
            /\ tk.calls[Len(tk.calls)] = Call("cache", "write", FutKey(tk), "fault")

\* the reader has returned the error of a load future
ErrorReturned(tk) ==
    tk.op = "read" /\ tk.rd.state = "Fetching" /\ tk.rd.fut.pc = "completed"

\* C18: once a read call on the chunk reader has returned an error, every
\* later read call ends in an error or in zero bytes (it does not panic on
\* the completed load future) and makes no further call to either store.
C18_ErrorIsTerminal ==
    \A t \in Tasks :
        LET tk == tasks[t]
        IN  ErrorReturned(tk)
            => /\ tk.rd.last \in {"err", "eof"}
               /\ Len(tk.calls) \in FailedCalls(tk)

\* the read is a chunk read every I/O of which completed without error
CleanFixedRead(tk) ==
    /\ tk.op = "read"
    /\ strategy.kind = "Fixed"
    /\ tk.rd.state # "None"
    /\ FailedCalls(tk) = {}
    /\ ~tk.rd.skipped

\* C19: a chunk reader whose I/O all completes, read with buffers of
\* positive size until a read call returns without data, has then returned
\* a zero-byte read (end of stream); from then on the state is Iterating
\* with the partitioner exhausted, also while a further read call is under
\* way, so that every further read call takes the branch of Iterating that
\* returns zero bytes and calls neither store.
C19_ReaderReachesEndOfStream ==
    \A t \in Tasks :
        LET tk == tasks[t]
        IN  CleanFixedRead(tk)
            => /\ tk.pc = "done" => tk.rd.last = "eof"
               /\ tk.rd.last = "eof"
                     => /\ tk.rd.state = "Iterating"
                        /\ next(tk.rd.it).item = None
                        /\ tk.rd.stream = <<>>

\* C20: on a chunk miss of a read with a fully specified range, when the
\* origin chunk is buffered the offset of the intra-chunk range is at most
\* the number of bytes buffered, so the slice is taken inside the buffer
\* and does not panic.
C20_SliceInsideBuffer ==
    \A t \in Tasks :
        LET tk == tasks[t]
        IN  (tk.op = "read" /\ FullRange(tk.range) /\ tk.rd.state = "Fetching")
            => /\ tk.rd.fut.pc = "cache_write"
                     => Unwrap(Unwrap(tk.rd.fut.tr).cache_range.offset) <= Len(tk.rd.fut.bs)
               /\ tk.rd.fut.res.st # "panic"

\* C21: a Fixed read that succeeds reports as content length the number of
\* bytes its reader delivers up to the end of the stream, for fully
\* specified ranges (also those reaching past the end of the object) and
\* for open-ended and suffix ranges.
C21_LengthEqualsDelivered ==
    \A t \in Tasks :
        LET tk == tasks[t]
        IN  (CleanFixedRead(tk) /\ tk.pc = "done" /\ tk.rd.last = "eof")
            => /\ tk.res.st = "ok"
               /\ tk.res.length = Len(tk.rd.out)

\* the logical entries the layer caches for the object paths of the callers:
\* the whole object, a chunk of it, its metadata
LogicalEntries ==
    {[kind |-> "whole", path |-> p, idx |-> 0] : p \in Paths}
        \cup {[kind |-> "meta", path |-> p, idx |-> 0] : p \in Paths}
        \cup {[kind |-> "chunk", path |-> p, idx |-> i] : p \in Paths, i \in ChunkIndices}

\* the cache key of a logical entry
KeyOf(e) ==
    CASE e.kind = "whole" -> e.path
      [] e.kind = "meta" -> format_meta_cache_path(e.path)
      [] OTHER -> format_content_cache_path(e.path, e.idx)

IsMetadata(bs) == decode_metadata(bs).st = "ok"

\* C22: a key the cache holds is the key of one logical entry only (the
\* whole-object key of p, the chunk key of (q, i) and the metadata key of
\* any path are different strings, chunk keys are equal only for the same
\* path and index); so a stat that hits reads bytes written as metadata,
\* and a read that hits reads bytes written as content.
C22_KeysDistinct ==
    /\ \A k \in DOMAIN cache :
          \A e1 \in LogicalEntries, e2 \in LogicalEntries :
             (KeyOf(e1) = k /\ KeyOf(e2) = k) => e1 = e2
    /\ \A t \in Tasks :
          LET tk == tasks[t]
          IN  \A i \in CallsTo(tk, "cache") :
                 (tk.calls[i].op = "read" /\ tk.calls[i].r = "ok"
                     /\ Has(cache, tk.calls[i].key))
                 => (IsMetadata(cache[tk.calls[i].key]) <=> tk.op = "stat")

====
